---- MODULE Spec2Model ----
(***************************************************************************)
(* Voice-call agent (Pantelis1901/Aibot).  The repository holds two        *)
(* stand-alone Flask programs with the same routes:                        *)
(*   ORIGINALE.py  /twilio/process starts a background thread per Turn     *)
(*                 Event (download, Deepgram STT, is_greek, gpt_reply,     *)
(*                 tts_audio, live-call update);                           *)
(*   app.py        /twilio/process does the whole turn in the request      *)
(*                 handler (openai_reply, eleven_tts with a file cache).   *)
(* A process runs one of them; `program` says which.  Texts are sequences  *)
(* of Unicode code points.  Python lists are objects of a heap, so that    *)
(* an alias kept by one thread (conv) and the list registered in           *)
(* CONVERSATIONS can differ after a re-assignment.                         *)
(***************************************************************************)
EXTENDS Integers, Sequences, FiniteSets, TLC

(* ------------------------------ bounds --------------------------------- *)

\* Turn Events delivered in one run.
MaxTurns == 2

\* Completed earlier turns of call CA1 the run may start from.
MaxHist == 9

\* Longest text handed to is_greek run on its own.
MaxTextLen == 2

\* How far beyond the ceiling of gpt_reply the transcripts go that are handed
\* to the compaction run on its own.
MaxExtra == 3

Calls == {"CA1", "CA2"}

\* Concurrent deliveries: threads of ORIGINALE.py, request handlers of app.py.
Slots == {1, 2}

Refs == 1..(Cardinality(Calls) + Cardinality(Slots) + 1)

(* ------------------------- program constants --------------------------- *)

\* ORIGINALE.py:100  if len(conv) > 20
GPT_CEILING == 20

\* ORIGINALE.py:101  conv[-19:]
GPT_KEEP == 19

\* app.py:82  if len(conv) > 15
OPENAI_CEILING == 15

\* app.py:83  conv[-14:]
OPENAI_KEEP == 14

\* ORIGINALE.py:43  "Ͱ" <= ch <= "Ͽ" or "ἀ" <= ch <= "῿"
GREEK_LO == 880

GREEK_HI == 1023

GREEK_EXT_LO == 7936

GREEK_EXT_HI == 8191

(* The program's fixed strings, each written by its leading code points.   *)

\* ORIGINALE.py:194  "Δεν σας άκουσα καθαρά. ..."
REPROMPT == <<916, 949, 957>>

\* ORIGINALE.py:196  "Για να σας εξυπηρετήσω σωστά, μιλήστε μου στα ελληνικά, ..."
SPEAK_GREEK == <<915, 953, 945>>

\* ORIGINALE.py:95  "Συγγνώμη, αντιμετωπίζω ένα τεχνικό πρόβλημα. ..."
GPT_FALLBACK == <<931, 965, 947, 960>>

\* ORIGINALE.py:221-222  "Συγγνώμη, αντιμετωπίζω ένα τεχνικό θέμα με τον ήχο. ..."
AUDIO_APOLOGY == <<931, 965, 947, 952>>

\* app.py:111-112  "Συγγνώμη, αντιμετωπίζω τεχνικό πρόβλημα αυτή τη στιγμή. ..."
OPENAI_FALLBACK == <<931, 965, 947, 964>>

\* app.py:216  "Δεν σας άκουσα, μπορείτε να επαναλάβετε;"
NOT_HEARD == <<916, 949, 957, 32>>

\* app.py:246  "Σας ακούω. Θέλετε κάτι άλλο ή ..."
FOLLOWUP == <<931, 945, 962>>

(* ------------------------- external inputs ----------------------------- *)

\* What the speech-to-text service can hand over: nothing, white space only,
\* Latin text, Greek text with white space around it.
RawTexts == {<<>>, <<32>>, <<72, 105>>, <<32, 945, 32>>}

\* Twilio's SpeechResult (app.py:211): blank, or Greek text with white space
\* around it.
SpeechResults == {<<32>>, <<32, 945, 32>>}

\* What the completion service can answer (the program strips it).
RawReplies == {<<32, 925, 945, 953>>}

\* Sizes of a synthesis payload: an empty body, a full clip.
PayloadSizes == {0, 12288}

\* The user text of the turns already completed when the run starts.
HistText == <<945>>

HistReply == <<925, 945, 953>>

(* ----------------------------- text helpers ---------------------------- *)

\* str.strip() with no argument removes these (ASCII white space, NBSP, ...).
IsSpace(ch) == ch \in {9, 10, 11, 12, 13, 28, 29, 30, 31, 32, 133, 160}

RECURSIVE LStrip(_)
LStrip(s) == IF s # <<>> /\ IsSpace(Head(s)) THEN LStrip(Tail(s)) ELSE s

RECURSIVE RStrip(_)
RStrip(s) ==
    IF s # <<>> /\ IsSpace(s[Len(s)]) THEN RStrip(SubSeq(s, 1, Len(s) - 1)) ELSE s

strip(s) == RStrip(LStrip(s))

\* A faulty is_greek, for comparison: the lower end of the first range is
\* not tested.
is_greek_first_only(text) ==
    /\ text # <<>>
    /\ \/ GREEK_LO <= text[1] /\ text[1] <= GREEK_HI
       \/ GREEK_EXT_LO <= text[1] /\ text[1] <= GREEK_EXT_HI

is_greek_no_lower_end(text) ==
    \E i \in 1..Len(text) :
        \/ text[i] <= GREEK_HI
        \/ GREEK_EXT_LO <= text[i] /\ text[i] <= GREEK_EXT_HI

\* for ch in text: if '\u0370' <= ch <= '\u03FF' or '\u1F00' <= ch <= '\u1FFF':
\* return True; return False
is_greek(text) ==
    \E i \in 1..Len(text) :
        \/ GREEK_LO <= text[i] /\ text[i] <= GREEK_HI
        \/ GREEK_EXT_LO <= text[i] /\ text[i] <= GREEK_EXT_HI

\* hashlib.sha1(text.encode("utf-8")).hexdigest()[:16]: a deterministic
\* digest of the text.  SHA-1 is not computed; the stand-in is a polynomial
\* digest of the code points, which like the 64 bits of SHA-1 gives the
\* texts met here pairwise different values.
RECURSIVE Digest(_, _)
Digest(text, h) ==
    IF text = <<>> THEN h ELSE Digest(Tail(text), (h * 131 + Head(text)) % 65521)

\* AUDIO_DIR / f"{call_sid}_{h}.mp3"
_mp3_path_for_text(call_sid, text) == <<call_sid, Digest(text, 7)>>

(* ------------------------------- messages ------------------------------ *)

\* {role, content}; `turn` names the Turn Event a message belongs to (0 for
\* the system message, <= 0 for the turns completed before the run).
Msg(role, content, turn) == [role |-> role, content |-> content, turn |-> turn]

SystemMessage == Msg("system", <<>>, 0)

\* conv[-k:] of a Python list
LastK(conv, k) ==
    IF Len(conv) <= k THEN conv ELSE SubSeq(conv, Len(conv) - k + 1, Len(conv))

\* A faulty compaction, for comparison: conv[-20:], which forgets conv[0].
GptCompactedWithoutHead(conv) == LastK(conv, GPT_KEEP + 1)

\* [conv[0]] + conv[-19:]   (ORIGINALE.py:101)
GptCompacted(conv) == <<conv[1]>> \o LastK(conv, GPT_KEEP)

\* [conv[0]] + conv[-14:]   (app.py:83)
\* A faulty compaction, for comparison: conv[0] and the 14 messages after it.
OpenaiCompactedFromFront(conv) == <<conv[1]>> \o SubSeq(conv, 2, OPENAI_KEEP + 1)

OpenaiCompacted(conv) == <<conv[1]>> \o LastK(conv, OPENAI_KEEP)

GptOverCeiling(conv) == Len(conv) > GPT_CEILING

OpenaiOverCeiling(conv) == Len(conv) > OPENAI_CEILING

(* -------------------------------- state -------------------------------- *)

VARIABLES
    program,        \* "ORIGINALE" or "app": the program this process runs
    ELEVEN_API_KEY, \* app.py:22, whether the key is configured
    CONVERSATIONS,  \* call sid -> list object (0: no such key)
    heap,           \* list object -> its messages (<<>>: object not allocated)
    AUDIO_DIR,      \* file name -> size: the files under audio/
    th,             \* slot -> the delivery it runs: position and locals
    nturns,         \* Turn Events delivered so far
    fn,             \* the function run on its own ("none" in a running process)
    input,          \* its argument
    output          \* <<>> before it has returned, <<its value>> after

vars ==
    <<program, ELEVEN_API_KEY, CONVERSATIONS, heap, AUDIO_DIR, th, nturns,
      fn, input, output>>

None == <<>>

Idle ==
    [pc |-> "idle", call |-> "", turn |-> 0, transcript |-> <<>>, conv |-> 0,
     sent |-> <<>>, reply |-> <<>>, tmp |-> <<>>, bot_text |-> <<>>,
     audio_url |-> None, payloads |-> <<>>, twiml |-> <<>>]

Ended(status) == [Idle EXCEPT !.pc = status]

Terminal == {"idle", "Done", "Failed"}

Free(s) == th[s].pc \in Terminal

\* A delivery takes the lowest free slot (slots are interchangeable).
Takes(s) == Free(s) /\ \A o \in Slots : o < s => ~Free(o)

ListOf(c) == heap[CONVERSATIONS[c]]

HasSession(c) == CONVERSATIONS[c] # 0

\* Lists no name refers to any more are reclaimed.
Collect(h, convs, t) ==
    [r \in Refs |->
        IF (\E c \in Calls : convs[c] = r) \/ (\E s \in Slots : t[s].conv = r)
        THEN h[r] ELSE <<>>]

NewRef == CHOOSE r \in Refs : heap[r] = <<>> /\ \A q \in Refs : q < r => heap[q] # <<>>

(* The transcript h uncontended, successful turns leave behind, computed    *)
(* the way each program runs a turn.                                        *)
RECURSIVE GptHistory(_, _)
GptHistory(h, k) ==
    IF k = 0 THEN <<SystemMessage>>
    ELSE LET before == GptHistory(h, k - 1)
             after == before \o <<Msg("user", HistText, k - h),
                                  Msg("assistant", HistReply, k - h)>>
         IN  IF GptOverCeiling(after) THEN GptCompacted(after) ELSE after

RECURSIVE OpenaiHistory(_, _)
OpenaiHistory(h, k) ==
    IF k = 0 THEN <<SystemMessage>>
    ELSE LET before == OpenaiHistory(h, k - 1)
             asked == before \o <<Msg("user", HistText, k - h)>>
             kept == IF OpenaiOverCeiling(asked) THEN OpenaiCompacted(asked) ELSE asked
         IN  kept \o <<Msg("assistant", HistReply, k - h)>>

History(p, h) == IF p = "ORIGINALE" THEN GptHistory(h, h) ELSE OpenaiHistory(h, h)

Init ==
    /\ program \in {"ORIGINALE", "app"}
    /\ ELEVEN_API_KEY \in (IF program = "app" THEN BOOLEAN ELSE {FALSE})
    /\ \E h \in {0, MaxHist} :
          /\ CONVERSATIONS = [c \in Calls |-> IF c = "CA1" /\ h > 0 THEN 1 ELSE 0]
          /\ heap = [r \in Refs |-> IF r = 1 /\ h > 0 THEN History(program, h) ELSE <<>>]
    /\ AUDIO_DIR = <<>>
    /\ th = [s \in Slots |-> Idle]
    /\ nturns = 0
    /\ fn = "none"
    /\ input = <<>>
    /\ output = <<>>

(* --------------------- ORIGINALE.py: the turn pipeline ----------------- *)

\* twilio_process with CallSid and RecordingUrl: starts background_process.
twilio_process(s, c) ==
    /\ program = "ORIGINALE"
    /\ nturns < MaxTurns
    /\ Takes(s)
    /\ nturns' = nturns + 1
    /\ th' = [th EXCEPT ![s] = [Idle EXCEPT !.pc = "download", !.call = c,
                                            !.turn = nturns + 1]]
    /\ heap' = Collect(heap, CONVERSATIONS, th')
    /\ UNCHANGED <<fn, input, output, program, ELEVEN_API_KEY, CONVERSATIONS, AUDIO_DIR>>

\* A faulty download, for comparison: a failed retrieval goes on to tell the
\* caller about it.
download_speaks_apology(s) ==
    /\ th[s].pc = "download"
    /\ \E ok \in BOOLEAN :
          th' = [th EXCEPT ![s] = IF ok THEN [@ EXCEPT !.pc = "stt"]
                                  ELSE [@ EXCEPT !.pc = "tts", !.bot_text = AUDIO_APOLOGY]]
    /\ heap' = Collect(heap, CONVERSATIONS, th')
    /\ UNCHANGED <<fn, input, output, program, ELEVEN_API_KEY, CONVERSATIONS, AUDIO_DIR, nturns>>

\* 1) requests.get(wav_url); raise_for_status.  A failure lands in the outer
\* except, which only prints.
download(s) ==
    /\ th[s].pc = "download"
    /\ \E ok \in BOOLEAN :
          th' = [th EXCEPT ![s] = IF ok THEN [@ EXCEPT !.pc = "stt"] ELSE Ended("Failed")]
    /\ heap' = Collect(heap, CONVERSATIONS, th')
    /\ UNCHANGED <<fn, input, output, program, ELEVEN_API_KEY, CONVERSATIONS, AUDIO_DIR, nturns>>

\* A faulty transcription step, for comparison: when the service fails the
\* recording is fetched again.
deepgram_stt_refetches(s) ==
    /\ th[s].pc = "stt"
    /\ \E ok \in BOOLEAN, raw \in RawTexts :
          th' = [th EXCEPT ![s] = IF ok THEN [@ EXCEPT !.pc = "classify",
                                                      !.transcript = strip(raw)]
                                  ELSE [@ EXCEPT !.pc = "download"]]
    /\ UNCHANGED <<fn, input, output, program, ELEVEN_API_KEY, CONVERSATIONS, heap,
                   AUDIO_DIR, nturns>>

\* 2) deepgram_stt: the stripped transcript, "" on any exception.
deepgram_stt(s) ==
    /\ th[s].pc = "stt"
    /\ \E transcript \in {strip(raw) : raw \in RawTexts} \cup {<<>>} :
          th' = [th EXCEPT ![s] = [@ EXCEPT !.pc = "classify",
                                            !.transcript = transcript]]
    /\ UNCHANGED <<fn, input, output, program, ELEVEN_API_KEY, CONVERSATIONS, heap, AUDIO_DIR, nturns>>

\* if not transcript / elif not is_greek(transcript) / else gpt_reply(...)
\* A faulty classification step, for comparison: a turn without a transcript
\* ends there, and the caller is told nothing.
classify_drops_silence(s) ==
    /\ th[s].pc = "classify"
    /\ th' = [th EXCEPT ![s] =
                IF th[s].transcript = <<>>
                THEN Ended("Done")
                ELSE IF ~is_greek(th[s].transcript)
                THEN [@ EXCEPT !.pc = "tts", !.bot_text = SPEAK_GREEK]
                ELSE [@ EXCEPT !.pc = "g_check"]]
    /\ UNCHANGED <<fn, input, output, program, ELEVEN_API_KEY, CONVERSATIONS, heap, AUDIO_DIR, nturns>>

classify(s) ==
    /\ th[s].pc = "classify"
    /\ th' = [th EXCEPT ![s] =
                IF th[s].transcript = <<>>
                THEN [@ EXCEPT !.pc = "tts", !.bot_text = REPROMPT]
                ELSE IF ~is_greek(th[s].transcript)
                THEN [@ EXCEPT !.pc = "tts", !.bot_text = SPEAK_GREEK]
                ELSE [@ EXCEPT !.pc = "g_check"]]
    /\ UNCHANGED <<fn, input, output, program, ELEVEN_API_KEY, CONVERSATIONS, heap, AUDIO_DIR, nturns>>

\* return reply: the locals of gpt_reply (conv, payload) are gone, and
\* background_process has its bot_text.
Returned(rec, reply) ==
    [rec EXCEPT !.pc = "tts", !.bot_text = reply, !.reply = <<>>, !.conv = 0,
                !.sent = <<>>, !.tmp = <<>>]

\* gpt_reply: if call_sid not in CONVERSATIONS
g_check(s) ==
    /\ th[s].pc = "g_check"
    /\ th' = [th EXCEPT ![s].pc = IF HasSession(th[s].call) THEN "g_get" ELSE "g_create"]
    /\ UNCHANGED <<fn, input, output, program, ELEVEN_API_KEY, CONVERSATIONS, heap, AUDIO_DIR, nturns>>

\* CONVERSATIONS[call_sid] = [{"role": "system", ...}]
g_create(s) ==
    /\ th[s].pc = "g_create"
    /\ CONVERSATIONS' = [CONVERSATIONS EXCEPT ![th[s].call] = NewRef]
    /\ th' = [th EXCEPT ![s].pc = "g_get"]
    /\ heap' = Collect([heap EXCEPT ![NewRef] = <<SystemMessage>>], CONVERSATIONS', th')
    /\ UNCHANGED <<fn, input, output, program, ELEVEN_API_KEY, AUDIO_DIR, nturns>>

\* A faulty lookup, for comparison: conv is the transcript of some call that
\* has a session, the turn's own or not.
g_get_some_session(s) ==
    /\ th[s].pc = "g_get"
    /\ th' = [th EXCEPT ![s] = [@ EXCEPT !.pc = "g_user",
                                         !.conv = CONVERSATIONS[CHOOSE c \in Calls : HasSession(c)]]]
    /\ UNCHANGED <<fn, input, output, program, ELEVEN_API_KEY, CONVERSATIONS, heap, AUDIO_DIR, nturns>>

\* conv = CONVERSATIONS[call_sid]
g_get(s) ==
    /\ th[s].pc = "g_get"
    /\ th' = [th EXCEPT ![s] = [@ EXCEPT !.pc = "g_user",
                                         !.conv = CONVERSATIONS[th[s].call]]]
    /\ UNCHANGED <<fn, input, output, program, ELEVEN_API_KEY, CONVERSATIONS, heap, AUDIO_DIR, nturns>>

\* conv.append({"role": "user", "content": user_text})
g_user(s) ==
    /\ th[s].pc = "g_user"
    /\ heap' = [heap EXCEPT ![th[s].conv] =
                    Append(@, Msg("user", th[s].transcript, th[s].turn))]
    /\ th' = [th EXCEPT ![s].pc = "g_post"]
    /\ UNCHANGED <<fn, input, output, program, ELEVEN_API_KEY, CONVERSATIONS, AUDIO_DIR, nturns>>

\* requests.post(... json={"messages": conv ...}); the stripped content of the
\* answer, the fixed fallback on any exception.
g_post(s) ==
    /\ th[s].pc = "g_post"
    /\ \E reply \in {strip(raw) : raw \in RawReplies} \cup {GPT_FALLBACK} :
          th' = [th EXCEPT ![s] = [@ EXCEPT !.pc = "g_asst",
                                            !.sent = heap[th[s].conv],
                                            !.reply = reply]]
    /\ UNCHANGED <<fn, input, output, program, ELEVEN_API_KEY, CONVERSATIONS, heap, AUDIO_DIR, nturns>>

\* conv.append({"role": "assistant", "content": reply}); the request payload
\* is of no use from here on.
g_asst(s) ==
    /\ th[s].pc = "g_asst"
    /\ heap' = [heap EXCEPT ![th[s].conv] =
                    Append(@, Msg("assistant", th[s].reply, th[s].turn))]
    /\ th' = [th EXCEPT ![s] = [@ EXCEPT !.pc = "g_len", !.sent = <<>>]]
    /\ UNCHANGED <<fn, input, output, program, ELEVEN_API_KEY, CONVERSATIONS, AUDIO_DIR, nturns>>

\* if len(conv) > 20, else return reply
g_len(s) ==
    /\ th[s].pc = "g_len"
    /\ th' = [th EXCEPT ![s] =
                IF GptOverCeiling(heap[th[s].conv])
                THEN [@ EXCEPT !.pc = "g_slice"]
                ELSE Returned(@, th[s].reply)]
    /\ heap' = Collect(heap, CONVERSATIONS, th')
    /\ UNCHANGED <<fn, input, output, program, ELEVEN_API_KEY, CONVERSATIONS, AUDIO_DIR, nturns>>

\* the right-hand side [conv[0]] + conv[-19:]
g_slice(s) ==
    /\ th[s].pc = "g_slice"
    /\ th' = [th EXCEPT ![s] = [@ EXCEPT !.pc = "g_store",
                                         !.tmp = GptCompacted(heap[th[s].conv])]]
    /\ UNCHANGED <<fn, input, output, program, ELEVEN_API_KEY, CONVERSATIONS, heap, AUDIO_DIR, nturns>>

\* CONVERSATIONS[call_sid] = <that new list>; return reply
g_store(s) ==
    /\ th[s].pc = "g_store"
    /\ CONVERSATIONS' = [CONVERSATIONS EXCEPT ![th[s].call] = NewRef]
    /\ th' = [th EXCEPT ![s] = Returned(@, th[s].reply)]
    /\ heap' = Collect([heap EXCEPT ![NewRef] = th[s].tmp], CONVERSATIONS', th')
    /\ UNCHANGED <<fn, input, output, program, ELEVEN_API_KEY, AUDIO_DIR, nturns>>

(* TwiML sent to the live call: what is spoken and what follows it.         *)
Play(url) == [verb |-> "Play", arg |-> url]

Say(text) == [verb |-> "Say", arg |-> text]

Record == [verb |-> "Record", arg |-> <<>>]

Gather(text) == [verb |-> "Gather", arg |-> text]

Redirect == [verb |-> "Redirect", arg |-> <<>>]

\* 4) the TwiML background_process builds from audio_url
UpdateTwiml(audio_url, bot_text) ==
    IF audio_url # None THEN <<Play(audio_url), Record>>
    ELSE <<Say(AUDIO_APOLOGY), Record>>

WriteFile(dir, name, content) ==
    [n \in DOMAIN dir \cup {name} |-> IF n = name THEN content ELSE dir[n]]

\* 3) tts_audio(bot_text, call_sid): the payload of any 2xx answer is written
\* as it is under a fresh name, label_<uuid4>.mp3, and its URL returned; ""
\* on any exception.  One call per turn: the turn's number stands for the
\* uuid.  The program never reads these files back, and they are left out of
\* AUDIO_DIR, which holds the files app.py looks up.  payloads is what the
\* service delivered: nothing when the request raised.
tts_audio(s) ==
    /\ th[s].pc = "tts"
    /\ \E payloads \in {<<size>> : size \in PayloadSizes} \cup {<<>>} :
          LET url == IF payloads # <<>> THEN <<th[s].call, th[s].turn>> ELSE None
          IN  th' = [th EXCEPT ![s] =
                        [@ EXCEPT !.pc = "update",
                                  !.audio_url = url,
                                  !.payloads = payloads,
                                  !.twiml = UpdateTwiml(url, th[s].bot_text)]]
    /\ UNCHANGED <<fn, input, output, program, ELEVEN_API_KEY, CONVERSATIONS, heap, AUDIO_DIR, nturns>>

\* twilio_client.calls(call_sid).update(twiml=twiml): the thread ends after
\* it, or lands in the except clause of the update when the call raises; the
\* except clause uses none of the locals.
update(s) ==
    /\ th[s].pc = "update"
    /\ \E ok \in BOOLEAN :
          th' = [th EXCEPT ![s] = IF ok THEN Ended("Done")
                                  ELSE [Idle EXCEPT !.pc = "update_except",
                                                    !.call = th[s].call]]
    /\ heap' = Collect(heap, CONVERSATIONS, th')
    /\ UNCHANGED <<fn, input, output, program, ELEVEN_API_KEY, CONVERSATIONS, AUDIO_DIR, nturns>>

\* A faulty except clause, for comparison: the update is tried again.
update_except_retries(s) ==
    /\ th[s].pc = "update_except"
    /\ th' = [th EXCEPT ![s].pc = "update"]
    /\ UNCHANGED <<fn, input, output, program, ELEVEN_API_KEY, CONVERSATIONS, heap,
                   AUDIO_DIR, nturns>>

\* except Exception as e: print("BACKGROUND UPDATE ERROR:", e); the thread
\* ends.
update_except(s) ==
    /\ th[s].pc = "update_except"
    /\ th' = [th EXCEPT ![s] = Ended("Done")]
    /\ heap' = Collect(heap, CONVERSATIONS, th')
    /\ UNCHANGED <<fn, input, output, program, ELEVEN_API_KEY, CONVERSATIONS, AUDIO_DIR, nturns>>

(* ------------------------ app.py: the request handler ------------------ *)

\* What twilio_process answers once the reply is known (app.py:229-254).
ResponseTwiml(audio_url, reply) ==
    <<IF audio_url # None THEN Play(audio_url) ELSE Say(reply), Gather(FOLLOWUP), Redirect>>

\* After openai_reply has returned: eleven_tts only if ELEVEN_API_KEY is set.
\* The locals of openai_reply (conv, payload) are gone.
Replied(rec, reply) ==
    LET back == [rec EXCEPT !.reply = reply, !.conv = 0, !.sent = <<>>, !.tmp = <<>>]
    IN  IF ELEVEN_API_KEY
        THEN [back EXCEPT !.pc = "e_exists"]
        ELSE [back EXCEPT !.pc = "respond", !.twiml = ResponseTwiml(None, reply)]

\* twilio_process (app.py), up to the call of openai_reply: SpeechResult that
\* is empty after strip() is answered at once with <Say> and <Redirect>.
app_twilio_process(s, c) ==
    /\ program = "app"
    /\ nturns < MaxTurns
    /\ Takes(s)
    /\ nturns' = nturns + 1
    /\ \E speech \in SpeechResults :
          th' = [th EXCEPT ![s] =
                    IF strip(speech) = <<>>
                    THEN [Idle EXCEPT !.pc = "respond", !.call = c, !.turn = nturns + 1,
                                      !.transcript = speech, !.bot_text = NOT_HEARD,
                                      !.twiml = <<Say(NOT_HEARD), Redirect>>]
                    ELSE [Idle EXCEPT !.pc = "o_get", !.call = c, !.turn = nturns + 1,
                                      !.transcript = speech]]
    /\ heap' = Collect(heap, CONVERSATIONS, th')
    /\ UNCHANGED <<fn, input, output, program, ELEVEN_API_KEY, CONVERSATIONS, AUDIO_DIR>>

\* conv = CONVERSATIONS.get(call_sid); if not conv
o_get(s) ==
    /\ th[s].pc = "o_get"
    /\ th' = [th EXCEPT ![s] =
                IF HasSession(th[s].call) /\ ListOf(th[s].call) # <<>>
                THEN [@ EXCEPT !.pc = "o_user", !.conv = CONVERSATIONS[th[s].call]]
                ELSE [@ EXCEPT !.pc = "o_create"]]
    /\ UNCHANGED <<fn, input, output, program, ELEVEN_API_KEY, CONVERSATIONS, heap, AUDIO_DIR, nturns>>

\* conv = [{"role": "system", ...}]; CONVERSATIONS[call_sid] = conv
o_create(s) ==
    /\ th[s].pc = "o_create"
    /\ CONVERSATIONS' = [CONVERSATIONS EXCEPT ![th[s].call] = NewRef]
    /\ th' = [th EXCEPT ![s] = [@ EXCEPT !.pc = "o_user", !.conv = NewRef]]
    /\ heap' = Collect([heap EXCEPT ![NewRef] = <<SystemMessage>>], CONVERSATIONS', th')
    /\ UNCHANGED <<fn, input, output, program, ELEVEN_API_KEY, AUDIO_DIR, nturns>>

\* conv.append({"role": "user", "content": text})
o_user(s) ==
    /\ th[s].pc = "o_user"
    /\ heap' = [heap EXCEPT ![th[s].conv] =
                    Append(@, Msg("user", th[s].transcript, th[s].turn))]
    /\ th' = [th EXCEPT ![s].pc = "o_len"]
    /\ UNCHANGED <<fn, input, output, program, ELEVEN_API_KEY, CONVERSATIONS, AUDIO_DIR, nturns>>

\* if len(conv) > 15
o_len(s) ==
    /\ th[s].pc = "o_len"
    /\ th' = [th EXCEPT ![s].pc =
                IF OpenaiOverCeiling(heap[th[s].conv]) THEN "o_slice" ELSE "o_post"]
    /\ UNCHANGED <<fn, input, output, program, ELEVEN_API_KEY, CONVERSATIONS, heap, AUDIO_DIR, nturns>>

\* the right-hand side [conv[0]] + conv[-14:]
o_slice(s) ==
    /\ th[s].pc = "o_slice"
    /\ th' = [th EXCEPT ![s] = [@ EXCEPT !.pc = "o_assign",
                                         !.tmp = OpenaiCompacted(heap[th[s].conv])]]
    /\ UNCHANGED <<fn, input, output, program, ELEVEN_API_KEY, CONVERSATIONS, heap, AUDIO_DIR, nturns>>

\* conv[:] = <that list>: the same list object gets the new contents
o_assign(s) ==
    /\ th[s].pc = "o_assign"
    /\ heap' = [heap EXCEPT ![th[s].conv] = th[s].tmp]
    /\ th' = [th EXCEPT ![s].pc = "o_post"]
    /\ UNCHANGED <<fn, input, output, program, ELEVEN_API_KEY, CONVERSATIONS, AUDIO_DIR, nturns>>

\* requests.post(... "messages": conv ...).  An answer goes on to the append
\* of line 105; any exception leaves the try block and returns the fallback.
o_post(s) ==
    /\ th[s].pc = "o_post"
    /\ \E ok \in BOOLEAN, raw \in RawReplies :
          th' = [th EXCEPT ![s] =
                    IF ok
                    THEN [@ EXCEPT !.pc = "o_asst", !.sent = heap[th[s].conv],
                                   !.reply = strip(raw)]
                    ELSE Replied(@, OPENAI_FALLBACK)]
    /\ heap' = Collect(heap, CONVERSATIONS, th')
    /\ UNCHANGED <<fn, input, output, program, ELEVEN_API_KEY, CONVERSATIONS, AUDIO_DIR, nturns>>

\* conv.append({"role": "assistant", "content": reply}); return reply
o_asst(s) ==
    /\ th[s].pc = "o_asst"
    /\ th' = [th EXCEPT ![s] = Replied(@, th[s].reply)]
    /\ heap' = Collect([heap EXCEPT ![th[s].conv] =
                            Append(@, Msg("assistant", th[s].reply, th[s].turn))],
                       CONVERSATIONS, th')
    /\ UNCHANGED <<fn, input, output, program, ELEVEN_API_KEY, CONVERSATIONS, AUDIO_DIR, nturns>>

\* audio_path.exists()
path_exists(audio_path) == audio_path \in DOMAIN AUDIO_DIR

\* eleven_tts: audio_path = _mp3_path_for_text(call_sid, text);
\* if audio_path.exists(): return its URL
e_exists(s) ==
    /\ th[s].pc = "e_exists"
    /\ LET audio_path == _mp3_path_for_text(th[s].call, th[s].reply)
       IN  th' = [th EXCEPT ![s] =
                    IF path_exists(audio_path)
                    THEN [@ EXCEPT !.pc = "respond", !.audio_url = audio_path,
                                   !.twiml = ResponseTwiml(audio_path, th[s].reply)]
                    ELSE [@ EXCEPT !.pc = "e_post"]]
    /\ UNCHANGED <<fn, input, output, program, ELEVEN_API_KEY, CONVERSATIONS, heap, AUDIO_DIR, nturns>>

\* requests.post to the synthesis service; raise_for_status; r.content.
\* A timeout or any other exception returns None: payloads, what the service
\* delivered, is then empty.
e_post(s) ==
    /\ th[s].pc = "e_post"
    /\ \E payloads \in {<<size>> : size \in PayloadSizes} \cup {<<>>} :
          th' = [th EXCEPT ![s] =
                    IF payloads # <<>>
                    THEN [@ EXCEPT !.pc = "e_open", !.payloads = payloads]
                    ELSE [@ EXCEPT !.pc = "respond",
                                   !.twiml = ResponseTwiml(None, th[s].reply)]]
    /\ UNCHANGED <<fn, input, output, program, ELEVEN_API_KEY, CONVERSATIONS, heap, AUDIO_DIR, nturns>>

\* open(audio_path, "wb"): the file exists from here on, empty
e_open(s) ==
    /\ th[s].pc = "e_open"
    /\ AUDIO_DIR' = WriteFile(AUDIO_DIR, _mp3_path_for_text(th[s].call, th[s].reply), 0)
    /\ th' = [th EXCEPT ![s].pc = "e_write"]
    /\ UNCHANGED <<fn, input, output, program, ELEVEN_API_KEY, CONVERSATIONS, heap, nturns>>

\* f.write(audio_bytes); return the URL
e_write(s) ==
    /\ th[s].pc = "e_write"
    /\ LET audio_path == _mp3_path_for_text(th[s].call, th[s].reply)
       IN  /\ AUDIO_DIR' = WriteFile(AUDIO_DIR, audio_path, th[s].payloads[1])
           /\ th' = [th EXCEPT ![s] =
                        [@ EXCEPT !.pc = "respond", !.audio_url = audio_path,
                                  !.twiml = ResponseTwiml(audio_path, th[s].reply)]]
    /\ UNCHANGED <<fn, input, output, program, ELEVEN_API_KEY, CONVERSATIONS, heap, nturns>>

\* return str(resp), 200, ...
respond(s) ==
    /\ th[s].pc = "respond"
    /\ th' = [th EXCEPT ![s] = Ended("Done")]
    /\ heap' = Collect(heap, CONVERSATIONS, th')
    /\ UNCHANGED <<fn, input, output, program, ELEVEN_API_KEY, CONVERSATIONS, AUDIO_DIR, nturns>>

(* ------------------- what the webhook handler answers ------------------ *)

\* "Ένα δευτερόλεπτο να ετοιμάσω την παραγγελία σας."
HOLD_LINE == <<904, 957, 945>>

\* The answer of twilio_process in ORIGINALE.py once the thread is started:
\* a short line and Twilio's hold music.
HoldingTwiml == <<Say(HOLD_LINE), Play(<<"TWILIO_HOLD_MUSIC">>)>>

\* What the handler of the delivery in slot s has answered, or is about to
\* answer, to the webhook request; <<>> while it has no answer.  In
\* ORIGINALE.py the handler starts the thread and returns; in app.py the
\* handler runs the whole pipeline and answers at its return statement.
HandlerResponse(s) ==
    IF program = "ORIGINALE"
    THEN IF th[s].pc \in Terminal THEN <<>> ELSE HoldingTwiml
    ELSE IF th[s].pc = "respond" THEN th[s].twiml ELSE <<>>

(* ---------------------------- specifications --------------------------- *)

OriginaleStep(s) ==
    \/ \E c \in Calls : twilio_process(s, c)
    \/ download(s)
    \/ deepgram_stt(s)
    \/ classify(s)
    \/ g_check(s)
    \/ g_create(s)
    \/ g_get(s)
    \/ g_user(s)
    \/ g_post(s)
    \/ g_asst(s)
    \/ g_len(s)
    \/ g_slice(s)
    \/ g_store(s)
    \/ tts_audio(s)
    \/ update(s)
    \/ update_except(s)

AppStep(s) ==
    \/ \E c \in Calls : app_twilio_process(s, c)
    \/ o_get(s)
    \/ o_create(s)
    \/ o_user(s)
    \/ o_len(s)
    \/ o_slice(s)
    \/ o_assign(s)
    \/ o_post(s)
    \/ o_asst(s)
    \/ e_exists(s)
    \/ e_post(s)
    \/ e_open(s)
    \/ e_write(s)
    \/ respond(s)

Next == \E s \in Slots : OriginaleStep(s) \/ AppStep(s)

\* Either program.
Spec == Init /\ [][Next]_vars

InitOriginale == Init /\ program = "ORIGINALE"

NextOriginale == \E s \in Slots : OriginaleStep(s)

\* A process running ORIGINALE.py.
SpecOriginale == InitOriginale /\ [][NextOriginale]_vars

\* The steps of background_process in slot s: all but the start of the thread.
Pipeline(s) ==
    \/ download(s)
    \/ deepgram_stt(s)
    \/ classify(s)
    \/ g_check(s)
    \/ g_create(s)
    \/ g_get(s)
    \/ g_user(s)
    \/ g_post(s)
    \/ g_asst(s)
    \/ g_len(s)
    \/ g_slice(s)
    \/ g_store(s)
    \/ tts_audio(s)
    \/ update(s)
    \/ update_except(s)

\* ORIGINALE.py with every started thread scheduled again and again and every
\* request to a service answered or timed out (timeout= at lines 89, 130,
\* 154, 184): a thread that can take a step eventually takes one.
FairSpecOriginale ==
    SpecOriginale /\ \A s \in Slots : WF_vars(Pipeline(s))

InitApp == Init /\ program = "app"

NextApp == \E s \in Slots : AppStep(s)

\* A process running app.py.
SpecApp == InitApp /\ [][NextApp]_vars

(* ------------------ functions of the programs, run on their own ------- *)

\* A Latin letter and the code points at and next to the ends of the two
\* ranges of is_greek.
CodePoints == {72, 879, 880, 1023, 1024, 7935, 7936, 8191, 8192}

RECURSIVE TextsUpTo(_)
TextsUpTo(n) ==
    IF n = 0 THEN {<<>>}
    ELSE LET shorter == TextsUpTo(n - 1)
         IN  shorter \cup {Append(t, ch) : t \in shorter, ch \in CodePoints}

Texts == TextsUpTo(MaxTextLen)

\* A transcript of n messages after the system message, each message
\* different from all others, user and assistant taking turns.
RECURSIVE Dialogue(_, _)
Dialogue(n, userFirst) ==
    IF n = 0 THEN <<SystemMessage>>
    ELSE Append(Dialogue(n - 1, userFirst),
                Msg(IF (n % 2 = 1) = userFirst THEN "user" ELSE "assistant", <<945>>, n))

Transcripts ==
    {Dialogue(n, userFirst) : n \in 0..(GPT_CEILING + MaxExtra), userFirst \in BOOLEAN}

InitFunctions ==
    /\ program \in {"ORIGINALE", "app"}
    /\ fn \in (IF program = "ORIGINALE" THEN {"is_greek", "compaction"} ELSE {"compaction"})
    /\ input \in (IF fn = "is_greek" THEN Texts ELSE Transcripts)
    /\ output = <<>>
    /\ ELEVEN_API_KEY = FALSE
    /\ CONVERSATIONS = [c \in Calls |-> 0]
    /\ heap = [r \in Refs |-> <<>>]
    /\ AUDIO_DIR = <<>>
    /\ th = [s \in Slots |-> Idle]
    /\ nturns = 0

\* is_greek(transcript), ORIGINALE.py:195
call_is_greek ==
    /\ fn = "is_greek"
    /\ output = <<>>
    /\ output' = <<is_greek(input)>>
    /\ UNCHANGED <<program, ELEVEN_API_KEY, CONVERSATIONS, heap, AUDIO_DIR, th, nturns,
                   fn, input>>

\* if len(conv) > 20: [conv[0]] + conv[-19:], ORIGINALE.py:100-101
gpt_compaction ==
    /\ fn = "compaction"
    /\ program = "ORIGINALE"
    /\ output = <<>>
    /\ output' = <<IF GptOverCeiling(input) THEN GptCompacted(input) ELSE input>>
    /\ UNCHANGED <<program, ELEVEN_API_KEY, CONVERSATIONS, heap, AUDIO_DIR, th, nturns,
                   fn, input>>

\* if len(conv) > 15: [conv[0]] + conv[-14:], app.py:82-83
openai_compaction ==
    /\ fn = "compaction"
    /\ program = "app"
    /\ output = <<>>
    /\ output' = <<IF OpenaiOverCeiling(input) THEN OpenaiCompacted(input) ELSE input>>
    /\ UNCHANGED <<program, ELEVEN_API_KEY, CONVERSATIONS, heap, AUDIO_DIR, th, nturns,
                   fn, input>>

NextFunctions == call_is_greek \/ gpt_compaction \/ openai_compaction

\* One call of is_greek or of a compaction on an argument of the bounded sets.
SpecFunctions == InitFunctions /\ [][NextFunctions]_vars

(* ------------------------- vocabulary of the claims -------------------- *)

\* The text holds a code point of the Greek or the Greek Extended block.
HasGreek(text) ==
    \E i \in DOMAIN text : text[i] \in (880..1023) \cup (7936..8191)

\* The reply of the turn in slot s, as the pipeline holds it.
TurnReply(s) == IF program = "app" THEN th[s].reply ELSE th[s].bot_text

\* The turn in slot s went through the Generating step, which has returned.
GenerationDone(s) ==
    IF program = "app"
    THEN /\ th[s].pc \in {"e_exists", "e_post", "e_open", "e_write", "respond"}
         /\ strip(th[s].transcript) # <<>>
    ELSE /\ th[s].pc \in {"tts", "update"}
         /\ th[s].transcript # <<>>
         /\ HasGreek(th[s].transcript)

\* No two deliveries have overlapped so far: a delivery takes the lowest free
\* slot, so only the lowest slot has ever been taken.
Serial == \A o \in Slots : (\E q \in Slots : q < o) => th[o].pc = "idle"

\* The positions of transcript T holding a message of the given role and turn.
Positions(T, role, turn) ==
    {i \in DOMAIN T : T[i].role = role /\ T[i].turn = turn}

\* T holds at i the user message of the turn in slot s and right after it
\* that turn's assistant reply.
PairAt(T, i, s) ==
    /\ i + 1 <= Len(T)
    /\ T[i] = Msg("user", th[s].transcript, th[s].turn)
    /\ T[i + 1] = Msg("assistant", TurnReply(s), th[s].turn)

\* A payload no minimum viable size can admit.
Undersized(size) == size = 0

\* The file eleven_tts reads or writes for the turn in slot s.
ArtifactOf(s) == <<th[s].call, Digest(th[s].reply, 7)>>

\* The file is not being written at this moment.
Settled(f) == \A o \in Slots : ~(th[o].pc = "e_write" /\ ArtifactOf(o) = f)

(* --------------------------------- C1 ---------------------------------- *)

\* C1 (violated by the code): when two background_process threads of one
\* call have both returned from gpt_reply, the call's transcript holds both
\* user/assistant pairs, each user message immediately followed by its own
\* reply, the earlier arrival first, and no other message of either turn.
C1_SerialConsistency ==
    \A s, t \in Slots :
        (/\ program = "ORIGINALE"
         /\ GenerationDone(s) /\ GenerationDone(t)
         /\ th[s].call = th[t].call
         /\ th[s].turn < th[t].turn)
        => /\ HasSession(th[s].call)
           /\ LET T == ListOf(th[s].call)
              IN  /\ \E i, j \in DOMAIN T :
                        i + 1 < j /\ PairAt(T, i, s) /\ PairAt(T, j, t)
                  /\ Cardinality({k \in DOMAIN T :
                                    T[k].turn \in {th[s].turn, th[t].turn}}) = 4

(* --------------------------------- C2 ---------------------------------- *)

\* C2 (violated by the code): in a sequence of turns run one at a time, the
\* transcript holds at most 1 + K messages once the compaction logic of a
\* turn has run (K = 19 in gpt_reply, K = 14 in openai_reply), and still
\* does when the turn has finished.
C2_TranscriptBound ==
    Serial =>
        \A s \in Slots :
            /\ (program = "app" /\ th[s].pc = "o_post")
               => Len(heap[th[s].conv]) <= 1 + 14
            /\ (GenerationDone(s) /\ HasSession(th[s].call))
               => Len(ListOf(th[s].call)) <= 1 + (IF program = "app" THEN 14 ELSE 19)

(* --------------------------------- C3 ---------------------------------- *)

\* C3: in every reachable state, element 0 of every existing call's
\* transcript is the system message the session was created with, and that
\* message stands nowhere else in the transcript.
C3_SystemMessageFirst ==
    \A c \in Calls :
        HasSession(c) =>
            /\ ListOf(c) # <<>>
            /\ ListOf(c)[1] = [role |-> "system", content |-> <<>>, turn |-> 0]
            /\ \A i \in DOMAIN ListOf(c) : i > 1 => ListOf(c)[i].role # "system"

\* Two turns of one call are in flight after a compaction has dropped the
\* oldest user message: an assistant message now follows the system message.
C3_Witness ==
    \E c \in Calls, s, t \in Slots :
        /\ program = "ORIGINALE"
        /\ s # t /\ ~Free(s) /\ ~Free(t)
        /\ th[s].call = c /\ th[t].call = c
        /\ HasSession(c)
        /\ Len(ListOf(c)) = 1 + 19
        /\ ListOf(c)[2].role = "assistant"

(* --------------------------------- C4 ---------------------------------- *)

\* The turn in slot s has a transcription that is not empty and holds no
\* Greek code point.
NonGreekTurn(s) ==
    /\ program = "ORIGINALE"
    /\ th[s].pc \in {"classify", "tts", "update"}
    /\ th[s].transcript # <<>>
    /\ ~HasGreek(th[s].transcript)

\* C4: every step of a turn whose transcription is not empty and holds no
\* Greek code point leaves the sessions and every transcript as they are,
\* never enters gpt_reply, and from the classification on the turn's reply
\* is the fixed request to speak Greek.
C4_LanguageGate ==
    [][\A s \in Slots :
          (NonGreekTurn(s) /\ th'[s] # th[s])
          => /\ CONVERSATIONS' = CONVERSATIONS
             /\ heap' = heap
             /\ th'[s].pc \in {"tts", "update", "update_except", "Done"}
             /\ th'[s].pc \in {"tts", "update"}
                => th'[s].bot_text = <<915, 953, 945>>]_vars

\* A Latin-only turn has reached the update of the call while the call has a
\* session with a transcript.
C4_Witness ==
    \E s \in Slots :
        /\ NonGreekTurn(s)
        /\ th[s].pc = "update"
        /\ th[s].bot_text = <<915, 953, 945>>
        /\ HasSession(th[s].call)
        /\ Len(ListOf(th[s].call)) > 1

(* --------------------------------- C5 ---------------------------------- *)

\* C5 (violated by the code): when the transcription of a turn failed or
\* came back empty, no transcript holds a message of that turn, the turn's
\* line is the reprompt, and the update of the call speaks the reprompt
\* (synthesized, or said by the controller) and then records.
C5_TranscriptionFailure ==
    \A s \in Slots :
        (program = "ORIGINALE" /\ th[s].pc = "update" /\ th[s].transcript = <<>>)
        => /\ \A r \in Refs : \A i \in DOMAIN heap[r] : heap[r][i].turn # th[s].turn
           /\ th[s].bot_text = <<916, 949, 957>>
           /\ th[s].twiml = IF th[s].audio_url # None
                            THEN <<Play(th[s].audio_url), Record>>
                            ELSE <<Say(<<916, 949, 957>>), Record>>

(* --------------------------------- C6 ---------------------------------- *)

\* C6 (violated by the code): when the Generating step of a turn run on its
\* own has returned, with an answer of the engine or with the fallback, the
\* call's transcript holds exactly one user message of the turn and right
\* after it exactly one assistant message of the turn, the text returned.
C6_OneUserOneAssistant ==
    \A s \in Slots :
        (Serial /\ GenerationDone(s))
        => /\ HasSession(th[s].call)
           /\ LET T == ListOf(th[s].call)
              IN  /\ Cardinality(Positions(T, "user", th[s].turn)) = 1
                  /\ Cardinality(Positions(T, "assistant", th[s].turn)) = 1
                  /\ \E i \in DOMAIN T : PairAt(T, i, s)

(* --------------------------------- C7 ---------------------------------- *)

\* The artifacts synthesized from the text, written in full and not empty.
CachedFor(text) ==
    {f \in DOMAIN AUDIO_DIR :
        f[2] = Digest(text, 7) /\ Settled(f) /\ ~Undersized(AUDIO_DIR[f])}

\* C7 (violated by the code): a request to synthesize a text for which an
\* artifact was synthesized before issues no external call and returns the
\* reference of that artifact.
C7_CacheIdempotence ==
    [][\A s \in Slots :
          (/\ th[s].pc = "e_exists"
           /\ th'[s] # th[s]
           /\ CachedFor(th[s].reply) # {})
          => /\ th'[s].pc = "respond"
             /\ th'[s].audio_url \in CachedFor(th[s].reply)]_vars

(* --------------------------------- C8 ---------------------------------- *)

\* C8 (violated by the code): when the adapter has returned after a first
\* payload under the minimum viable size, it has made exactly one more
\* attempt, and if that one is undersized as well it has returned no
\* artifact and written no cache entry.
C8_SynthesisRetry ==
    \A s \in Slots :
        (/\ th[s].pc \in {"update", "respond"}
         /\ th[s].payloads # <<>>
         /\ Undersized(th[s].payloads[1]))
        => /\ Len(th[s].payloads) = 2
           /\ Undersized(th[s].payloads[2])
              => /\ th[s].audio_url = None
                 /\ ArtifactOf(s) \notin DOMAIN AUDIO_DIR

(* --------------------------------- C9 ---------------------------------- *)

\* C9 (violated by the code): every artifact a lookup can hit, once it has
\* been written, is not undersized.  (That an entry is never removed or
\* replaced is the other half of the claim.)
C9_CacheHoldsValidArtifacts ==
    \A f \in DOMAIN AUDIO_DIR : Settled(f) => ~Undersized(AUDIO_DIR[f])

(* --------------------------------- C10 --------------------------------- *)

\* The instructions for the call are about the reply of the turn in slot s.
Instructing(s) ==
    \/ program = "ORIGINALE" /\ th[s].pc = "update"
    \/ program = "app" /\ th[s].pc = "respond" /\ strip(th[s].transcript) # <<>>

\* C10 (violated by the code): the instructions for the call play the
\* synthesized artifact, or speak the turn's reply text itself when the
\* synthesis gave no artifact, and then ask for the next utterance.
C10_SpeakReplyWhenSynthesisFails ==
    \A s \in Slots :
        Instructing(s)
        => /\ Len(th[s].twiml) >= 2
           /\ th[s].twiml[1] = IF th[s].audio_url # None
                               THEN Play(th[s].audio_url)
                               ELSE Say(TurnReply(s))
           /\ th[s].twiml[2].verb \in {"Record", "Gather"}

(* --------------------------------- C11 --------------------------------- *)

\* The delivery in slot s is a valid Turn Event whose pipeline is under way.
TurnUnderWay(s) ==
    /\ th[s].pc \notin Terminal
    /\ program = "app" => strip(th[s].transcript) # <<>>

\* C11 (violated by the code): at every stage of the pipeline of a valid
\* Turn Event the webhook handler has its answer, and no part of that answer
\* speaks or plays the turn's reply.
C11_HandlerNeverWaits ==
    \A s \in Slots :
        TurnUnderWay(s)
        => /\ HandlerResponse(s) # <<>>
           /\ \A i \in DOMAIN HandlerResponse(s) :
                 /\ HandlerResponse(s)[i] # Say(TurnReply(s))
                 /\ HandlerResponse(s)[i] # Play(th[s].audio_url)

(* --------------------------------- C12 --------------------------------- *)

\* C12: the step of a turn whose recording could not be fetched takes the
\* turn straight to Failed and leaves the sessions and every transcript as
\* they are; nothing follows Failed in that slot but the start of another
\* Turn Event.
C12_RetrievalFailure ==
    [][\A s \in Slots :
          /\ (th[s].pc = "download" /\ th'[s] # th[s] /\ th'[s].pc # "stt")
             => /\ th'[s].pc = "Failed"
                /\ th'[s].twiml = <<>>
                /\ CONVERSATIONS' = CONVERSATIONS
                /\ heap' = heap
          /\ (th[s].pc = "Failed" /\ th'[s] # th[s])
             => th'[s].pc = "download" /\ th'[s].turn = nturns + 1]_vars

\* A retrieval has failed while call CA1 has a session with messages in it
\* and another turn is under way.
C12_Witness ==
    \E s, t \in Slots :
        /\ program = "ORIGINALE"
        /\ th[s].pc = "Failed"
        /\ th[t].pc \notin Terminal
        /\ HasSession("CA1")
        /\ Len(ListOf("CA1")) > 1

(* --------------------------------- C13 --------------------------------- *)

\* C13: the update of the call either ends the turn as Done or raises into
\* its except clause, from where the turn ends as Done as well, without
\* another update; neither step touches the sessions or a transcript.
C13_UpdateFailureNotFatal ==
    [][\A s \in Slots :
          /\ (th[s].pc = "update" /\ th'[s] # th[s])
             => /\ th'[s].pc \in {"Done", "update_except"}
                /\ CONVERSATIONS' = CONVERSATIONS
                /\ heap' = heap
          /\ (th[s].pc = "update_except" /\ th'[s] # th[s])
             => /\ th'[s].pc = "Done"
                /\ CONVERSATIONS' = CONVERSATIONS
                /\ heap' = heap]_vars

\* The update of a turn has failed after messages of this run went into
\* the call's transcript.
C13_Witness ==
    \E s \in Slots :
        /\ th[s].pc = "update_except"
        /\ HasSession(th[s].call)
        /\ \E i \in DOMAIN ListOf(th[s].call) :
              /\ ListOf(th[s].call)[i].role = "assistant"
              /\ ListOf(th[s].call)[i].turn >= 1

(* --------------------------------- C14 --------------------------------- *)

\* How far along background_process a position is.
Stage(pc) ==
    CASE pc = "download" -> 1
      [] pc = "stt" -> 2
      [] pc = "classify" -> 3
      [] pc = "g_check" -> 4
      [] pc = "g_create" -> 5
      [] pc = "g_get" -> 6
      [] pc = "g_user" -> 7
      [] pc = "g_post" -> 8
      [] pc = "g_asst" -> 9
      [] pc = "g_len" -> 10
      [] pc = "g_slice" -> 11
      [] pc = "g_store" -> 12
      [] pc = "tts" -> 13
      [] pc = "update" -> 14
      [] pc = "update_except" -> 15
      [] OTHER -> 16

\* C14: with every thread scheduled and every request answered or timed out,
\* a Turn Event handed to background_process reaches Done or Failed, and on
\* the way every step takes it to a later stage: none cancels it or takes it
\* back.
C14_Termination ==
    /\ \A s \in Slots : (th[s].pc \notin Terminal) ~> (th[s].pc \in {"Done", "Failed"})
    /\ [][\A s \in Slots :
             (th[s].pc \notin Terminal /\ th'[s] # th[s])
             => Stage(th'[s].pc) > Stage(th[s].pc)]_vars

\* One turn has ended as Failed and another as Done.
C14_Witness ==
    \E s, t \in Slots :
        /\ program = "ORIGINALE"
        /\ th[s].pc = "Failed"
        /\ th[t].pc = "Done"

(* --------------------------------- C15 --------------------------------- *)

\* Slot s registers a fresh session in this step.
Creates(s, c) ==
    /\ th[s].pc = "g_create"
    /\ th[s].call = c
    /\ th'[s].pc = "g_get"

\* C15: the session of a call is created by the first turn of the call that
\* reaches generation, by no step outside generation and only while the call
\* has none, and a registered session is never removed from the registry.
C15_SessionLifecycle ==
    [][\A c \in Calls :
          /\ HasSession(c) => CONVERSATIONS'[c] # 0
          /\ (~HasSession(c) /\ CONVERSATIONS'[c] # 0) => \E s \in Slots : Creates(s, c)
          /\ HasSession(c) => \A s \in Slots : ~Creates(s, c)]_vars

(* --------------------------------- C16 --------------------------------- *)

\* Slot s sends its request to the dialogue engine in this step.
Posts(s) ==
    /\ th[s].pc \in {"g_post", "o_post"}
    /\ th'[s].pc \in {"g_asst", "o_asst"}

\* C16: the message list sent to the dialogue engine for a turn is the call's
\* registered transcript, begins with the system message and ends with the
\* user message of that turn.
C16_EngineInput ==
    [][\A s \in Slots :
          Posts(s)
          => /\ th'[s].sent = ListOf(th[s].call)
             /\ th'[s].sent[1] = SystemMessage
             /\ th'[s].sent[Len(th'[s].sent)] = Msg("user", th[s].transcript, th[s].turn)]_vars

(* --------------------------------- C17 --------------------------------- *)

\* R is T[0] followed by the last k messages of T, in T's order.
HeadAndLastK(R, T, k) ==
    /\ Len(R) = k + 1
    /\ R[1] = T[1]
    /\ \A i \in 1..k : R[1 + i] = T[Len(T) - k + i]

\* C17: the compaction of a transcript longer than the ceiling is its first
\* message followed by its last K messages in their order (K = 19 in
\* gpt_reply, 14 in openai_reply); a transcript at or below the ceiling is
\* returned as it is.
C17_CompactionResult ==
    (fn = "compaction" /\ output # <<>>)
    => LET ceiling == IF program = "ORIGINALE" THEN GPT_CEILING ELSE OPENAI_CEILING
           K == IF program = "ORIGINALE" THEN GPT_KEEP ELSE OPENAI_KEEP
       IN  IF Len(input) > ceiling
           THEN HeadAndLastK(output[1], input, K)
           ELSE output[1] = input

\* openai_reply's compaction has dropped at least two messages.
C17_Witness ==
    /\ fn = "compaction"
    /\ program = "app"
    /\ output # <<>>
    /\ Len(input) > OPENAI_CEILING + 1
    /\ Len(output[1]) = OPENAI_KEEP + 1

(* --------------------------------- C18 --------------------------------- *)

\* The code points U+0370..U+03FF and U+1F00..U+1FFF.
InRange(ch) == ch \in (880..1023) \cup (7936..8191)

\* C18: is_greek(text) is true exactly when some character of text lies in
\* U+0370..U+03FF or U+1F00..U+1FFF, so it is false on the empty string and
\* true on a mixed text with one such character; the call changes nothing but
\* its result.
C18_IsGreek ==
    /\ [](fn = "is_greek" /\ output # <<>>
          => output[1] = (\E i \in 1..Len(input) : InRange(input[i])))
    /\ [](fn = "is_greek" /\ output # <<>> /\ input = <<>> => output[1] = FALSE)
    /\ [][fn = "is_greek"
          => UNCHANGED <<program, ELEVEN_API_KEY, CONVERSATIONS, heap, AUDIO_DIR,
                         th, nturns, input>>]_vars

\* is_greek has answered true on a text whose only in-range character is its
\* last one.
C18_Witness ==
    /\ fn = "is_greek"
    /\ output = <<TRUE>>
    /\ Len(input) = 2
    /\ ~InRange(input[1])
    /\ InRange(input[2])

(* --------------------------------- C19 --------------------------------- *)

\* The positions of a turn whose recording has been retrieved and whose
\* update has not been attempted yet.
Retrieved ==
    {"stt", "classify", "g_check", "g_create", "g_get", "g_user", "g_post",
     "g_asst", "g_len", "g_slice", "g_store", "tts"}

\* The number of record directives in an instruction set.
Records(twiml) == Cardinality({i \in DOMAIN twiml : twiml[i] = Record})

\* C19: a turn attempts the update of the call once when its recording was
\* retrieved, whatever happened afterwards, and never when retrieval failed:
\* the update position is entered once, from synthesis, and left by the one
\* attempt; a turn ends as Done only after the attempt and as Failed only from
\* the retrieval; every retrieved turn gets to the attempt.  The instructions
\* sent end with the only record directive they hold.
C19_OneUpdatePerTurn ==
    /\ [][\A s \in Slots :
             /\ (th'[s].pc = "update" /\ th'[s] # th[s]) => th[s].pc = "tts"
             /\ (th[s].pc = "update" /\ th'[s] # th[s])
                => th'[s].pc \in {"Done", "update_except"}
             /\ (th[s].pc = "update_except" /\ th'[s] # th[s]) => th'[s].pc = "Done"
             /\ (th'[s].pc = "Done" /\ th[s].pc # "Done")
                => th[s].pc \in {"update", "update_except"}
             /\ (th'[s].pc = "Failed" /\ th[s].pc # "Failed") => th[s].pc = "download"
             /\ (th[s].pc = "download" /\ th'[s] # th[s])
                => th'[s].pc \in {"stt", "Failed"}]_vars
    /\ \A s \in Slots : (th[s].pc \in Retrieved) ~> (th[s].pc = "update")
    /\ [](\A s \in Slots :
             th[s].pc = "update"
             => /\ th[s].twiml # <<>>
                /\ th[s].twiml[Len(th[s].twiml)] = Record
                /\ Records(th[s].twiml) = 1)

\* A turn whose transcription and synthesis both failed is about to update
\* the call, while a turn whose retrieval failed has ended.
C19_Witness ==
    \E s, t \in Slots :
        /\ program = "ORIGINALE"
        /\ th[s].pc = "update"
        /\ th[s].transcript = <<>>
        /\ th[s].audio_url = None
        /\ th[t].pc = "Failed"

(* --------------------------------- C20 --------------------------------- *)

\* The transcript registered under call c in registry convs and heap h.
TranscriptIn(convs, h, c) == IF convs[c] # 0 THEN h[convs[c]] ELSE <<>>

\* C20: a step of a turn of call c leaves the registry entry and the
\* transcript of every other call as they were; the list a turn works on is
\* never the one registered under another call; and a turn in flight can
\* always take its next step, whatever the other turns are doing.
C20_CrossCallIsolation ==
    /\ [][\A s \in Slots :
             th'[s] # th[s]
             => \A c \in Calls :
                   (c # th[s].call /\ c # th'[s].call)
                   => /\ CONVERSATIONS'[c] = CONVERSATIONS[c]
                      /\ TranscriptIn(CONVERSATIONS', heap', c)
                            = TranscriptIn(CONVERSATIONS, heap, c)]_vars
    /\ [](\A s \in Slots :
             th[s].conv # 0
             => \A c \in Calls : c # th[s].call => CONVERSATIONS[c] # th[s].conv)
    /\ [](\A s \in Slots : th[s].pc \notin Terminal => ENABLED Pipeline(s))

\* Turns of two calls are in generation at once, each with its user message
\* appended to its own transcript.
C20_Witness ==
    \E s, t \in Slots :
        /\ program = "ORIGINALE"
        /\ th[s].call = "CA1" /\ th[s].pc = "g_post"
        /\ th[t].call = "CA2" /\ th[t].pc = "g_post"
        /\ ListOf("CA1") # ListOf("CA2")

====
